---- MODULE Spec2Model ----
(***************************************************************************)
(* A state-machine model of gpytorch.utils.nearest_neighbors.NNUtil.       *)
(*                                                                         *)
(* The object's fields are the variables k, dim, batch_shape, nnlib, res,  *)
(* index, neighbors and train_n.  Every public method is an action; the    *)
(* nested loop of build_sequential_nn_idx is unrolled into one action per  *)
(* loop step (the program is single threaded, so no other method runs      *)
(* while pc # "idle").  The last call, its arguments, how it ended and     *)
(* what it returned are kept in op, x, kArg, outcome, nn_idx and retShape. *)
(*                                                                         *)
(* A tensor is a record [shape, data]: data is the row-major flat buffer.  *)
(* Python's None is the empty tuple <<>>, a present value v is <<v>>.      *)
(* The assertions of the source are named after the error kinds of the     *)
(* specification: line 86 is "StateError", lines 90-91 "RangeError",       *)
(* lines 192-195 "ShapeError", line 187 "ConfigurationError".  Errors the  *)
(* interpreter or torch raise keep their Python names.                     *)
(***************************************************************************)
EXTENDS Integers, Sequences, FiniteSets, TLC

VARIABLES
    k,            \* self.k
    dim,          \* self.dim
    batch_shape,  \* self.batch_shape
    nnlib,        \* self.nnlib: "faiss" or "sklearn"
    res,          \* self.res: None or <<"gpu">> (faiss only)
    index,        \* self.index: one point sequence per slot (faiss only)
    neighbors,    \* self.neighbors: None while the attribute is not set
    train_n,      \* self.train_n: None or <<N>>
    pc,           \* position inside build_sequential_nn_idx, "idle" outside
    bi,           \* build loop: current slot (0-based)
    i,            \* build loop: current point (0-based)
    bindex,       \* build loop: the local `index`
    op,           \* the last method called
    x,            \* its tensor argument
    kArg,         \* its k argument (None when omitted)
    outcome,      \* "ok", "running" or the error it raised
    nn_idx,       \* the array being filled / returned, as (M, rows, k)
    retShape,     \* the shape of the returned array
    filled,       \* history: "never" until a set_nn_idx returns, then
                  \*          "yes", and "dropped" once self.index has
                  \*          been created anew since
    trainX,       \* history: while filled = "yes", the tensor of the last
                  \*          set_nn_idx that returned
    shrunk,       \* history: while filled = "yes", whether that call
                  \*          indexed fewer points than the one before it
    preferred_nnlib, \* constructor argument
    faissInstalled   \* whether `import faiss` succeeds

obj  == <<k, dim, batch_shape, nnlib, res, index, neighbors, train_n>>
env  == <<preferred_nnlib, faissInstalled>>
loop == <<pc, bi, i, bindex>>
call == <<op, x, kArg, outcome, nn_idx, retShape>>
hist == <<filled, trainX, shrunk>>
vars == <<obj, env, loop, call, hist>>

----------------------------------------------------------------------------
(* Bounds of the model. *)
MaxK     == 2   \* configured k ranges over 1..MaxK
MaxDim   == 2   \* dim ranges over 1..MaxDim
MaxBatch == 2   \* batch_shape is () or (b,) with b in 1..MaxBatch
MaxN     == 2   \* points per slot of a set_nn_idx / build argument
MaxT     == 2   \* points per slot of a find_nn_idx argument
MaxSeed  == 2   \* point patterns: 0..MaxSeed
MaxBuildN == 5  \* points per slot of a build argument under BuildSpec

None == <<>>
Some(v) == <<v>>

----------------------------------------------------------------------------
(* Tensors. *)
RECURSIVE Prod(_)
Prod(s) == IF s = <<>> THEN 1 ELSE Head(s) * Prod(Tail(s))

Rank(t) == Len(t.shape)

\* Coordinates are taken modulo an odd number above every pattern step.
Modulus == 2 * MaxSeed + 1

\* The input tensor of `shape` whose slot s follows pattern
\* g = (seed + s) % (MaxSeed + 1): point p has coordinates
\* (g * (p + c)) % Modulus, c = 0, 1, ...  Pattern 0 is a constant cloud
\* (every distance ties), pattern 1 the line 0,1,2,..., larger ones are
\* non-monotone sequences.
Gen(shape, seed) ==
    LET r  == Len(shape)
        nd == IF r >= 2 THEN shape[r - 1] * shape[r]
              ELSE IF r = 1 THEN shape[1] ELSE 1
        d  == IF r >= 2 THEN shape[r] ELSE 1
    IN [shape |-> shape,
        data  |-> [j \in 1..Prod(shape) |->
                     LET j0 == j - 1
                         s  == j0 \div nd
                         p  == (j0 % nd) \div d
                         c  == j0 % d
                     IN (((seed + s) % (MaxSeed + 1)) * (p + c)) % Modulus]]

ShapesUpTo(maxn) ==
    {<<>>}
    \cup {<<n>> : n \in 0..maxn}
    \cup {<<n, d>> : n \in 0..maxn, d \in 1..MaxDim}
    \cup {<<b, n, d>> : b \in 1..MaxBatch, n \in 0..maxn, d \in 1..MaxDim}

\* The second-to-last dimension of a shape, 0 when there is none.
Rows(shape) ==
    IF Len(shape) >= 2 THEN shape[Len(shape) - 1]
    ELSE IF Len(shape) = 1 THEN shape[1] ELSE 0

\* An input: a tensor t, and whether it is a plain one (at most one
\* point per slot, pattern 0).
InputsUpTo(maxn) ==
    {[t |-> Gen(sh, sd), plain |-> (sd = 0 /\ Rows(sh) <= 1)] :
        sh \in ShapesUpTo(maxn), sd \in 0..MaxSeed}

TrainInputs == InputsUpTo(MaxN)

TestInputs  == InputsUpTo(MaxT)

BuildInputs == InputsUpTo(MaxBuildN)

NoTensor == [shape |-> <<0>>, data |-> <<>>]

\* x.unsqueeze(-1)
unsqueeze(t) == [shape |-> Append(t.shape, 1), data |-> t.data]

\* shape[:-2]
BatchPart(shape) ==
    IF Len(shape) >= 2 THEN SubSeq(shape, 1, Len(shape) - 2) ELSE <<>>

\* _expand_and_check_shape: the promoted tensor, or the error raised.
\* A rank-0 tensor passes the batch comparison when batch_shape is empty
\* and then x.shape[-1] raises IndexError.
expand_and_check_shape(t) ==
    LET t1 == IF Rank(t) = 1 THEN unsqueeze(t) ELSE t
    IN IF BatchPart(t1.shape) # batch_shape
          THEN [err |-> "ShapeError", t |-> t]
       ELSE IF Rank(t1) = 0
          THEN [err |-> "IndexError", t |-> t]
       ELSE IF t1.shape[Rank(t1)] # dim
          THEN [err |-> "ShapeError", t |-> t]
       ELSE [err |-> "ok", t |-> t1]

\* x.shape[-2] of a checked tensor
PointCount(t) == t.shape[Rank(t) - 1]

\* batch_shape.numel()
numel == Prod(batch_shape)

\* x.view(-1, n, dim) is refused by torch when n * dim = 0 (the -1 is
\* ambiguous for a tensor of 0 elements).
ViewFails(n) == n * dim = 0

\* x.view(-1, n, dim)[s][p] (s, p 0-based): a point, as a dim-tuple.
ViewPoint(t, n, s, p) ==
    [c \in 1..dim |-> t.data[(s * n + p) * dim + c]]

\* x.view(-1, n, dim)[s][lo:hi] as a sequence of points.
ViewRows(t, n, s, lo, hi) ==
    [q \in 1..(hi - lo) |-> ViewPoint(t, n, s, lo + q - 1)]

----------------------------------------------------------------------------
(* The search structure (IndexFlatL2): reset, add, search. *)
RECURSIVE SumSq(_, _, _)
SumSq(a, b, c) ==
    IF c = 0 THEN 0
    ELSE (a[c] - b[c]) * (a[c] - b[c]) + SumSq(a, b, c - 1)

\* squared Euclidean distance
L2(a, b) == SumSq(a, b, Len(a))

\* a reset that forgets nothing
reset_keeps(ix) == ix

reset(ix) == <<>>

add(ix, pts) == ix \o pts

\* a is reported before b: nearer, or equally near and inserted earlier.
Before(ix, q, a, b) ==
    \/ L2(ix[a], q) < L2(ix[b], q)
    \/ L2(ix[a], q) = L2(ix[b], q) /\ a < b

\* index.search(q, kk)[1] for one query row: the 0-based labels of the kk
\* nearest stored points, nearest first, -1 where fewer than kk are stored.
search(ix, q, kk) ==
    [r \in 1..kk |->
        IF r <= Len(ix)
        THEN (CHOOSE a \in 1..Len(ix) :
                Cardinality({b \in 1..Len(ix) : Before(ix, q, b, a)}) = r - 1) - 1
        ELSE 0 - 1]

----------------------------------------------------------------------------
(* Construction. *)
BatchShapes == {<<>>, <<MaxBatch>>}

\* [IndexFlatL2(self.dim) for _ in range(self.batch_shape.numel())]
NewIndexList(m) == [s \in 1..m |-> <<>>]

\* "cuda" in str(device)
IsCuda(device) == device \in {"cuda", "cuda:0"}

Devices == {"cpu", "cuda:0", "tpu"}

\* __init__ that takes faiss whenever it is asked for, installed or not
Init_nofallback ==
    \E k0 \in 1..MaxK, d0 \in 1..MaxDim, bs \in BatchShapes,
       pref \in {"faiss", "scikit-learn"}, inst \in BOOLEAN,
       dev \in {"cpu", "cuda"} :
        /\ k = k0
        /\ dim = d0
        /\ batch_shape = bs
        /\ train_n = None
        /\ preferred_nnlib = pref
        /\ faissInstalled = inst
        /\ nnlib = IF pref = "faiss" THEN "faiss" ELSE "sklearn"
        /\ index = IF nnlib = "faiss" THEN NewIndexList(Prod(bs)) ELSE <<>>
        /\ res = IF nnlib = "faiss" /\ IsCuda(dev) THEN Some("gpu") ELSE None
        /\ neighbors = None
        /\ pc = "idle" /\ bi = 0 /\ i = 0 /\ bindex = <<>>
        /\ op = "__init__" /\ x = NoTensor /\ kArg = None /\ outcome = "ok"
        /\ nn_idx = <<>> /\ retShape = <<>>
        /\ filled = "never" /\ trainX = NoTensor /\ shrunk = FALSE

\* __init__ with arguments that let it return: k > 0, a torch.Size
\* batch_shape and a device that to() knows.
Init ==
    \E k0 \in 1..MaxK, d0 \in 1..MaxDim, bs \in BatchShapes,
       pref \in {"faiss", "scikit-learn"}, inst \in BOOLEAN,
       dev \in {"cpu", "cuda"} :
        /\ k = k0
        /\ dim = d0
        /\ batch_shape = bs
        /\ train_n = None
        /\ preferred_nnlib = pref
        /\ faissInstalled = inst
        /\ nnlib = IF pref = "faiss" /\ inst THEN "faiss" ELSE "sklearn"
        /\ index = IF nnlib = "faiss" THEN NewIndexList(Prod(bs)) ELSE <<>>
        /\ res = IF nnlib = "faiss" /\ IsCuda(dev) THEN Some("gpu") ELSE None
        /\ neighbors = None
        /\ pc = "idle" /\ bi = 0 /\ i = 0 /\ bindex = <<>>
        /\ op = "__init__" /\ x = NoTensor /\ kArg = None /\ outcome = "ok"
        /\ nn_idx = <<>> /\ retShape = <<>>
        /\ filled = "never" /\ trainX = NoTensor /\ shrunk = FALSE

\* How a call ends: what it was, how it ended, what it returned.
Return(name, t, kq, out, arr, shp) ==
    /\ op' = name
    /\ x' = t
    /\ kArg' = kq
    /\ outcome' = out
    /\ nn_idx' = arr
    /\ retShape' = shp

\* A call that raises `err` and has changed nothing.
Raise(name, t, kq, err) ==
    /\ Return(name, t, kq, err, <<>>, <<>>)
    /\ UNCHANGED <<obj, env, loop, hist>>

----------------------------------------------------------------------------
(* Device placement. *)
\* a cpu() that moves the handle but keeps the old structures
cpu_body_keeps ==
    IF nnlib = "faiss"
    THEN /\ res' = None
         /\ index' = index
    ELSE UNCHANGED <<res, index>>

\* cpu(): the body after super().cpu()
cpu_body ==
    IF nnlib = "faiss"
    THEN /\ res' = None
         /\ index' = NewIndexList(numel)
    ELSE UNCHANGED <<res, index>>

\* cuda(): the body after super().cuda(), with a faiss build that has
\* StandardGpuResources and GpuIndexFlatL2
cuda_body ==
    IF nnlib = "faiss"
    THEN /\ res' = Some("gpu")
         /\ index' = NewIndexList(numel)
    ELSE UNCHANGED <<res, index>>

\* a device change that also forgets train_n
DeviceFrame_forgets ==
    /\ IF nnlib = "faiss" /\ filled = "yes"
       THEN /\ filled' = "dropped"
            /\ trainX' = NoTensor
            /\ shrunk' = FALSE
       ELSE UNCHANGED hist
    /\ train_n' = None
    /\ UNCHANGED <<k, dim, batch_shape, nnlib, neighbors, env, loop>>

\* what cpu(), cuda() and to() leave alone, and what a device change means
\* for the history of set_nn_idx
DeviceFrame ==
    /\ IF nnlib = "faiss" /\ filled = "yes"
       THEN /\ filled' = "dropped"
            /\ trainX' = NoTensor
            /\ shrunk' = FALSE
       ELSE UNCHANGED hist
    /\ UNCHANGED <<k, dim, batch_shape, nnlib, neighbors, train_n, env, loop>>

cpu ==
    /\ pc = "idle"
    /\ cpu_body
    /\ Return("cpu", NoTensor, None, "ok", <<>>, <<>>)
    /\ DeviceFrame

cuda ==
    /\ pc = "idle"
    /\ cuda_body
    /\ Return("cuda", NoTensor, None, "ok", <<>>, <<>>)
    /\ DeviceFrame

to(device) ==
    /\ pc = "idle"
    /\ IF device = "cpu"
       THEN /\ cpu_body
            /\ Return("to", NoTensor, None, "ok", <<>>, <<>>)
            /\ DeviceFrame
       ELSE IF IsCuda(device)
       THEN /\ cuda_body
            /\ Return("to", NoTensor, None, "ok", <<>>, <<>>)
            /\ DeviceFrame
       ELSE Raise("to", NoTensor, None, "ConfigurationError")

----------------------------------------------------------------------------
(* set_nn_idx *)
\* lines 131-134 without the reset of line 133
Reindex_appends(t, n) ==
    [s \in 1..numel |-> add(index[s], ViewRows(t, n, s - 1, 0, n))]

\* lines 131-134: every slot is reset and refilled with its own slice.
Reindex(t, n) ==
    [s \in 1..numel |-> add(reset(index[s]), ViewRows(t, n, s - 1, 0, n))]

set_nn_idx(t) ==
    /\ pc = "idle"
    /\ LET chk == expand_and_check_shape(t) IN
       IF chk.err # "ok"
       THEN Raise("set_nn_idx", t, None, chk.err)
       ELSE LET n == PointCount(chk.t) IN
            /\ train_n' = Some(n)
            /\ UNCHANGED <<k, dim, batch_shape, nnlib, res, env, loop>>
            /\ IF nnlib = "sklearn"
               THEN \* line 129 calls the module sklearn.neighbors
                    /\ Return("set_nn_idx", t, None, "TypeError", <<>>, <<>>)
                    /\ UNCHANGED <<index, neighbors, hist>>
               ELSE IF ViewFails(n)
               THEN /\ Return("set_nn_idx", t, None, "RuntimeError", <<>>, <<>>)
                    /\ UNCHANGED <<index, neighbors, hist>>
               ELSE /\ index' = Reindex(chk.t, n)
                    /\ Return("set_nn_idx", t, None, "ok", <<>>, <<>>)
                    /\ trainX' = chk.t
                    /\ filled' = "yes"
                    /\ shrunk' = (filled = "yes" /\ n < PointCount(trainX))
                    /\ UNCHANGED neighbors

----------------------------------------------------------------------------
(* find_nn_idx *)
\* a k argument that is ignored
EffectiveK_default(kq) == k

\* the k a call works with: the argument, or self.k when it is None
EffectiveK(kq) == IF kq = None THEN k ELSE kq[1]

\* lines 104-111 with every slot searched in the first structure
SearchAll_firstslot(t, test_n, kk) ==
    [s \in 1..numel |->
        [r \in 1..test_n |->
            search(index[1], ViewPoint(t, test_n, s - 1, r - 1), kk)]]

\* lines 104-111: one search per slot and test row.
SearchAll(t, test_n, kk) ==
    [s \in 1..numel |->
        [r \in 1..test_n |->
            search(index[s], ViewPoint(t, test_n, s - 1, r - 1), kk)]]

\* lines 86-94 with the assertion of line 86 moved below that of line 90
find_nn_idx_checks_kfirst(t, kq) ==
    IF kq # None /\ ~(kq[1] > 0) THEN "RangeError"
    ELSE IF train_n = None THEN "StateError"
    ELSE IF ~(EffectiveK(kq) <= train_n[1]) THEN "RangeError"
    ELSE expand_and_check_shape(t).err

\* lines 86-94 without the assertion of lines 91-92
find_nn_idx_checks_nobound(t, kq) ==
    IF train_n = None THEN "StateError"
    ELSE IF kq # None /\ ~(kq[1] > 0) THEN "RangeError"
    ELSE expand_and_check_shape(t).err

\* lines 86-94: the first check that fails, "ok" when none does.
find_nn_idx_checks(t, kq) ==
    IF train_n = None THEN "StateError"
    ELSE IF kq # None /\ ~(kq[1] > 0) THEN "RangeError"
    ELSE IF ~(EffectiveK(kq) <= train_n[1]) THEN "RangeError"
    ELSE expand_and_check_shape(t).err

\* lines 86-111 with the test points added to the structures searched
find_nn_idx_adds(t, kq) ==
    /\ pc = "idle"
    /\ LET err == find_nn_idx_checks(t, kq)
           tx  == expand_and_check_shape(t).t
       IN IF err # "ok"
          THEN Raise("find_nn_idx", t, kq, err)
          ELSE IF nnlib = "sklearn"
          THEN Raise("find_nn_idx", t, kq, "AttributeError")
          ELSE IF ViewFails(PointCount(tx))
          THEN Raise("find_nn_idx", t, kq, "RuntimeError")
          ELSE /\ Return("find_nn_idx", t, kq, "ok",
                         SearchAll(tx, PointCount(tx), EffectiveK(kq)),
                         batch_shape \o <<PointCount(tx), EffectiveK(kq)>>)
               /\ index' = [s \in 1..numel |->
                               add(index[s],
                                   ViewRows(tx, PointCount(tx), s - 1,
                                            0, PointCount(tx)))]
               /\ UNCHANGED <<k, dim, batch_shape, nnlib, res, neighbors,
                              train_n, env, loop, hist>>

\* lines 77-112
find_nn_idx(t, kq) ==
    /\ pc = "idle"
    /\ LET err == find_nn_idx_checks(t, kq)
           tx  == expand_and_check_shape(t).t
       IN IF err # "ok"
          THEN Raise("find_nn_idx", t, kq, err)
          ELSE IF nnlib = "sklearn"
          THEN \* line 99: self.neighbors was never assigned
               Raise("find_nn_idx", t, kq, "AttributeError")
          ELSE IF ViewFails(PointCount(tx))
          THEN Raise("find_nn_idx", t, kq, "RuntimeError")
          ELSE /\ Return("find_nn_idx", t, kq, "ok",
                         SearchAll(tx, PointCount(tx), EffectiveK(kq)),
                         batch_shape \o <<PointCount(tx), EffectiveK(kq)>>)
               /\ UNCHANGED <<obj, env, loop, hist>>

KArgs == {None, Some(0), Some(1), Some(MaxK + 1)}

----------------------------------------------------------------------------
(* build_sequential_nn_idx, one action per step of its loops. *)
\* the local x after line 144
X == expand_and_check_shape(x).t

\* the local N
N == PointCount(X)

\* torch.empty(numel, n - k, k): rows not written yet are <<>>
EmptyRows(n) == [s \in 1..numel |-> [r \in 1..(n - k) |-> <<>>]]

\* x_np[bi][i][None, :] -- the conversion to float32 is exact on the
\* integer coordinates used here.
Row(s, p) == ViewPoint(X, N, s, p)

\* lines 144-160 with the assertion of line 146 weakened to k <= N
build_sequential_nn_idx_lax(t) ==
    /\ pc = "idle"
    /\ LET chk == expand_and_check_shape(t) IN
       IF chk.err # "ok"
       THEN Raise("build_sequential_nn_idx", t, None, chk.err)
       ELSE IF ~(k <= PointCount(chk.t))
       THEN Raise("build_sequential_nn_idx", t, None, "RangeError")
       ELSE IF nnlib = "faiss"
       THEN /\ Return("build_sequential_nn_idx", t, None, "running",
                      EmptyRows(PointCount(chk.t)), <<>>)
            /\ bindex' = <<>>
            /\ bi' = 0
            /\ i' = 0
            /\ pc' = IF 0 < numel THEN "seed" ELSE "return"
            /\ UNCHANGED <<obj, env, hist>>
       ELSE Raise("build_sequential_nn_idx", t, None, "UnboundLocalError")

\* lines 144-160 (faiss), or the whole call when it raises or when the
\* backend is sklearn, where line 176 reads the unbound local nn_idx.
\* The local index of line 152 starts empty; moving it to the accelerator
\* (lines 154-156) does not change what it holds.
build_sequential_nn_idx(t) ==
    /\ pc = "idle"
    /\ LET chk == expand_and_check_shape(t) IN
       IF chk.err # "ok"
       THEN Raise("build_sequential_nn_idx", t, None, chk.err)
       ELSE IF ~(k < PointCount(chk.t))
       THEN Raise("build_sequential_nn_idx", t, None, "RangeError")
       ELSE IF nnlib = "faiss"
       THEN /\ Return("build_sequential_nn_idx", t, None, "running",
                      EmptyRows(PointCount(chk.t)), <<>>)
            /\ bindex' = <<>>
            /\ bi' = 0
            /\ i' = 0
            /\ pc' = IF 0 < numel THEN "seed" ELSE "return"
            /\ UNCHANGED <<obj, env, hist>>
       ELSE Raise("build_sequential_nn_idx", t, None, "UnboundLocalError")

\* lines 163-164 with one seed point too few
BuildSeed_short ==
    /\ pc = "seed"
    /\ bindex' = add(reset(bindex), ViewRows(X, N, bi, 0, k - 1))
    /\ i' = k
    /\ pc' = "search"
    /\ UNCHANGED <<bi, obj, env, call, hist>>

\* lines 163-164 done on self.index[bi] instead of the local index
BuildSeed_shared ==
    /\ pc = "seed"
    /\ bindex' = add(reset(bindex), ViewRows(X, N, bi, 0, k))
    /\ index' = [index EXCEPT ![bi + 1] = bindex']
    /\ i' = k
    /\ pc' = "search"
    /\ UNCHANGED <<bi, k, dim, batch_shape, nnlib, res, neighbors, train_n,
                   env, call, hist>>

\* lines 163-164, and the first test of the loop header of line 165, which
\* line 146 (k < N) makes succeed
BuildSeed ==
    /\ pc = "seed"
    /\ bindex' = add(reset(bindex), ViewRows(X, N, bi, 0, k))
    /\ i' = k
    /\ pc' = "search"
    /\ UNCHANGED <<bi, obj, env, call, hist>>

\* lines 166-169
BuildSearch ==
    /\ pc = "search"
    /\ nn_idx' = [nn_idx EXCEPT ![bi + 1][i - k + 1] =
                                    search(bindex, Row(bi, i), k)]
    /\ pc' = "add"
    /\ UNCHANGED <<bi, i, bindex, obj, env, hist,
                   op, x, kArg, outcome, retShape>>

\* the step of line 170 with index.add(row) left out
BuildAdd_forgets ==
    /\ pc = "add"
    /\ bindex' = bindex
    /\ IF i + 1 < N
       THEN /\ i' = i + 1
            /\ pc' = "search"
            /\ bi' = bi
       ELSE /\ i' = i + 1
            /\ bi' = bi + 1
            /\ pc' = IF bi + 1 < numel THEN "seed" ELSE "return"
    /\ UNCHANGED <<obj, env, call, hist>>

\* line 170, and the loop headers of lines 165 and 162
BuildAdd ==
    /\ pc = "add"
    /\ bindex' = add(bindex, <<Row(bi, i)>>)
    /\ IF i + 1 < N
       THEN /\ i' = i + 1
            /\ pc' = "search"
            /\ bi' = bi
       ELSE /\ i' = i + 1
            /\ bi' = bi + 1
            /\ pc' = IF bi + 1 < numel THEN "seed" ELSE "return"
    /\ UNCHANGED <<obj, env, call, hist>>

\* lines 172 and 176
BuildReturn ==
    /\ pc = "return"
    /\ outcome' = "ok"
    /\ retShape' = batch_shape \o <<N - k, k>>
    /\ pc' = "idle"
    /\ bi' = 0
    /\ i' = 0
    /\ bindex' = <<>>
    /\ UNCHANGED <<obj, env, hist, op, x, kArg, nn_idx>>

----------------------------------------------------------------------------
\* The point count and the contents of a tensor play no part in the shape
\* check, so the tensors the check refuses are tried in their plain form
\* only.
Tried(in) == in.plain \/ expand_and_check_shape(in.t).err = "ok"

SetIndex == \E in \in TrainInputs : Tried(in) /\ set_nn_idx(in.t)

Query ==
    \E in \in TestInputs, kq \in KArgs : Tried(in) /\ find_nn_idx(in.t, kq)

BuildCall ==
    \E in \in TrainInputs : Tried(in) /\ build_sequential_nn_idx(in.t)

BuildCallLong ==
    \E in \in BuildInputs : Tried(in) /\ build_sequential_nn_idx(in.t)

SetDevice == \E device \in Devices : to(device)

Next ==
    \/ cpu
    \/ cuda
    \/ SetDevice
    \/ SetIndex
    \/ Query
    \/ BuildCall
    \/ BuildSeed
    \/ BuildSearch
    \/ BuildAdd
    \/ BuildReturn

Spec == Init /\ [][Next]_vars

\* The same object driven through device changes and longer sequential
\* builds (up to MaxBuildN points per slot).
BuildNext ==
    \/ cpu
    \/ cuda
    \/ SetDevice
    \/ BuildCallLong
    \/ BuildSeed
    \/ BuildSearch
    \/ BuildAdd
    \/ BuildReturn

BuildSpec == Init /\ [][BuildNext]_vars

----------------------------------------------------------------------------
(* Properties of build_sequential_nn_idx, checked under BuildSpec. *)
Building == op = "build_sequential_nn_idx" /\ outcome \in {"running", "ok"}

\* point p (0-based) of slot s (1-based) of the build argument, read
\* straight from the flat buffer
BuildPoint(s, p) == [c \in 1..dim |-> X.data[((s - 1) * N + p) * dim + c]]

\* the labels of a recorded row, as a set
Labels(row) == {row[j] : j \in 1..Len(row)}

\* C1: causality. Every row recorded so far, for any slot b and any point
\* i with k <= i < N, holds only labels in [0, i); and at the moment a row
\* has been recorded every point in the working structure is the point of
\* the current slot that carries its label, so a label never denotes a
\* point of another slot.
C1_Causality ==
    Building =>
        /\ \A s \in 1..numel : \A r \in 1..(N - k) :
              nn_idx[s][r] # <<>> =>
                 \A j \in 1..k : nn_idx[s][r][j] >= 0 /\ nn_idx[s][r][j] < r - 1 + k
        /\ pc = "add" =>
              /\ Len(bindex) = i
              /\ \A a \in 1..Len(bindex) : bindex[a] = BuildPoint(bi + 1, a - 1)

\* C1 witness: a finished build over two slots, each with at least two rows.
C1_Witness ==
    /\ op = "build_sequential_nn_idx" /\ outcome = "ok"
    /\ numel >= 2 /\ N - k >= 2
    /\ \A s \in 1..numel : \A r \in 1..(N - k) : Len(nn_idx[s][r]) = k

\* C2: the finished build equals the brute-force reference. The result has
\* numel slots of N - k rows of k entries, its shape is
\* (*batch_shape, N - k, k), and row i - k is a set of k distinct points of
\* {0..i-1} none of which is farther from point i than a point left out
\* (with pairwise distinct distances: exactly the k nearest points).
C2_BruteForce ==
    (op = "build_sequential_nn_idx" /\ outcome = "ok") =>
        /\ retShape = batch_shape \o <<N - k, k>>
        /\ Len(nn_idx) = numel
        /\ \A s \in 1..numel :
              /\ Len(nn_idx[s]) = N - k
              /\ \A r \in 1..(N - k) :
                    LET pt  == r - 1 + k
                        got == Labels(nn_idx[s][r])
                    IN /\ Len(nn_idx[s][r]) = k
                       /\ Cardinality(got) = k
                       /\ got \subseteq 0..(pt - 1)
                       /\ \A a \in got : \A b \in (0..(pt - 1)) \ got :
                             L2(BuildPoint(s, a), BuildPoint(s, pt))
                                <= L2(BuildPoint(s, b), BuildPoint(s, pt))

\* C2 witness: k = 2 on the line 0,1,2,3,4: row 0 is {0,1} and the row of
\* point 4 is {2,3}.
C2_Witness ==
    /\ op = "build_sequential_nn_idx" /\ outcome = "ok"
    /\ k = 2 /\ dim = 1 /\ batch_shape = <<>>
    /\ X.data = <<0, 1, 2, 3, 4>>
    /\ Labels(nn_idx[1][1]) = {0, 1}
    /\ Labels(nn_idx[1][3]) = {2, 3}

----------------------------------------------------------------------------
(* Properties of device changes, set_nn_idx and find_nn_idx, checked under *)
(* Spec.                                                                   *)
Queried == op = "find_nn_idx"

DeviceChanged == op \in {"cpu", "cuda", "to"} /\ outcome = "ok"

\* the k the last call asked for
KUsed == IF kArg = None THEN k ELSE kArg[1]

WellShaped == expand_and_check_shape(x).err = "ok"

\* test points per slot of the last call's argument
T == PointCount(X)

\* points per slot of the tensor last indexed
TrainN == PointCount(trainX)

\* point p (0-based) of slot s (1-based), read from the flat buffers
TrainPoint(s, p) ==
    [c \in 1..dim |-> trainX.data[((s - 1) * TrainN + p) * dim + c]]

TestPoint(s, p) == [c \in 1..dim |-> x.data[((s - 1) * T + p) * dim + c]]

TrainSlice(s) == [p \in 1..TrainN |-> TrainPoint(s, p - 1)]

AllEmpty == \A s \in 1..Len(index) : index[s] = <<>>

\* C3 (as claimed): once set_nn_idx has returned and the structures have
\* been created anew by a device change, a find_nn_idx whose arguments the
\* other checks accept fails with StateError.
C3_QueryAfterDeviceChange ==
    ( /\ Queried
      /\ filled = "dropped"
      /\ WellShaped /\ T >= 1
      /\ train_n # None /\ 1 <= KUsed /\ KUsed <= train_n[1] )
    => outcome = "StateError"

C5_ReindexReplaces ==
    (nnlib = "faiss" /\ filled = "yes") =>
        /\ Len(index) = numel
        /\ \A s \in 1..numel :
              /\ Len(index[s]) = TrainN
              /\ \A p \in 1..TrainN : index[s][p] = TrainPoint(s, p - 1)
        /\ (Queried /\ outcome = "ok") =>
              \A s \in 1..numel : \A r \in 1..T : \A j \in 1..KUsed :
                  nn_idx[s][r][j] >= 0 /\ nn_idx[s][r][j] < TrainN

\* C5 witness: a find_nn_idx that returns after the index was rebuilt from
\* fewer points than it held before.
C5_Witness ==
    /\ Queried /\ outcome = "ok" /\ filled = "yes" /\ shrunk
    /\ T >= 1

\* C6 (as claimed): a call that ends in an error leaves train_n, the
\* backend and every slot's structure as they were.
C6_NoPartialMutation ==
    [][ outcome' \notin {"ok", "running"} =>
           /\ train_n' = train_n
           /\ nnlib' = nnlib
           /\ index' = index
           /\ neighbors' = neighbors ]_vars

\* C7: a device change leaves every slot's structure empty (and no
\* self.neighbors), they stay empty until a set_nn_idx returns, and a
\* find_nn_idx that runs in between finds no point at all.
C7_DeviceChangeResets ==
    /\ DeviceChanged => (AllEmpty /\ neighbors = None)
    /\ filled = "dropped" => AllEmpty
    /\ (Queried /\ outcome = "ok" /\ filled = "dropped") =>
          \A s \in 1..numel : \A r \in 1..T : \A j \in 1..KUsed :
              nn_idx[s][r][j] = 0 - 1

\* C7 witness: a device change right after points had been indexed.
C7_Witness ==
    /\ DeviceChanged /\ nnlib = "faiss"
    /\ filled = "dropped" /\ train_n # None /\ train_n[1] >= 1
    /\ AllEmpty

\* C8: slot independence. After set_nn_idx slot s holds only slice s of the
\* training tensor, and the rows find_nn_idx returns for slot s are the
\* searches of slice s of the test tensor in slice s of the training
\* tensor: no other slot's points enter.
C8_SlotIndependence ==
    (Queried /\ outcome = "ok" /\ filled = "yes") =>
        \A s \in 1..numel :
            /\ index[s] = TrainSlice(s)
            /\ nn_idx[s] =
                  [r \in 1..T |-> search(TrainSlice(s), TestPoint(s, r - 1), KUsed)]

\* C8 witness: two slots holding different points and answering differently.
C8_Witness ==
    /\ Queried /\ outcome = "ok" /\ filled = "yes"
    /\ numel = 2
    /\ TrainSlice(1) # TrainSlice(2)
    /\ nn_idx[1] # nn_idx[2]

\* C9: while train_n is unset (no set_nn_idx call got past its shape
\* check), find_nn_idx fails with StateError whatever its arguments, and
\* returns nothing.
C9_QueryBeforeIndex ==
    (Queried /\ train_n = None) => (outcome = "StateError" /\ nn_idx = <<>>)

\* C9 witness: such a call with k = 0 and a tensor the shape check would
\* refuse, on an object placed on the accelerator.
C9_Witness ==
    /\ Queried /\ train_n = None /\ outcome = "StateError"
    /\ kArg = Some(0) /\ ~WellShaped
    /\ res # None

\* C10: with train_n set, a find_nn_idx whose k argument is <= 0, or whose
\* effective k exceeds train_n, fails with RangeError and returns nothing;
\* a find_nn_idx that returns had 0 < k <= train_n.
C10_KRange ==
    (Queried /\ train_n # None) =>
        /\ ( \/ (kArg # None /\ kArg[1] <= 0)
             \/ KUsed > train_n[1] )
           => (outcome = "RangeError" /\ nn_idx = <<>>)
        /\ outcome = "ok" => (0 < KUsed /\ KUsed <= train_n[1])

\* C10 witness: the default k refused because set_nn_idx was given fewer
\* than k points.
C10_Witness ==
    /\ Queried /\ kArg = None /\ outcome = "RangeError"
    /\ filled = "yes" /\ train_n = Some(TrainN) /\ TrainN < k

----------------------------------------------------------------------------
(* Properties of the object's fields over whole runs, checked under Spec. *)

\* C11 (as claimed): in every state after construction, on either
\* backend, the object holds exactly numel = prod(batch_shape) per-slot
\* search structures.
C11_IndexCount == Len(index) = numel

\* C12: train_n is None after construction and changes only in a
\* set_nn_idx whose argument passes the shape check, which sets it to the
\* point count (second-to-last dimension after promotion) of that
\* argument; find_nn_idx, build_sequential_nn_idx, device changes and a
\* set_nn_idx refused for its shape leave it as it was.
C12_TrainN ==
    /\ [](op = "__init__" => train_n = None)
    /\ [][IF op' = "set_nn_idx" /\ WellShaped'
          THEN train_n' = Some(Rows(x'.shape))
          ELSE train_n' = train_n]_vars

\* C12 witness: a find_nn_idx on an object whose train_n is the point
\* count of the tensor last indexed, with a device change and a refused
\* set_nn_idx behind it.
C12_Witness ==
    /\ op = "set_nn_idx" /\ outcome = "ShapeError"
    /\ filled = "dropped"
    /\ train_n = Some(MaxN)

\* C13: determinism of find_nn_idx. A find_nn_idx changes no field of the
\* object (no slot's population, not train_n); what it returns is the
\* search of its arguments in the structures as they are; and a
\* find_nn_idx that follows a find_nn_idx with the same test points and
\* the same k ends the same way with the same array.  So between two calls
\* with identical arguments any number of find_nn_idx calls, and no
\* set_nn_idx or device change, leave the output the same.
C13_QueryDeterminism ==
    /\ [](Queried /\ outcome = "ok" => nn_idx = SearchAll(X, T, KUsed))
    /\ [][op' = "find_nn_idx" =>
            /\ obj' = obj
            /\ (op = "find_nn_idx" /\ x' = x /\ kArg' = kArg) =>
                  /\ outcome' = outcome
                  /\ nn_idx' = nn_idx
                  /\ retShape' = retShape]_vars

\* C13 witness: a find_nn_idx that returned an array for two test points
\* in each of two slots, with an explicit k below the configured one.
C13_Witness ==
    /\ Queried /\ outcome = "ok"
    /\ numel = 2 /\ T = MaxT
    /\ k = 2 /\ kArg = Some(1)
    /\ nn_idx = SearchAll(X, T, 1)

----------------------------------------------------------------------------
(* Properties of the sklearn backend. *)

\* C14 (as claimed): on the sklearn backend with an empty batch_shape,
\* after a set_nn_idx of N >= k points a find_nn_idx over T >= 1 test
\* points returns an array of shape (T, k) whose entries are indices in
\* [0, N).
C14_FallbackQuery ==
    (/\ nnlib = "sklearn" /\ batch_shape = <<>>
     /\ Queried /\ train_n # None
     /\ WellShaped /\ T >= 1
     /\ KUsed >= 1 /\ KUsed <= train_n[1]) =>
        /\ outcome = "ok"
        /\ retShape = <<T, KUsed>>
        /\ \A r \in 1..T : \A j \in 1..KUsed :
              nn_idx[1][r][j] \in 0..(train_n[1] - 1)

\* C15 (as claimed): on the sklearn backend a build_sequential_nn_idx of
\* a well-shaped tensor with k < N returns the structure or fails with
\* UnsupportedOperationError, and with no other error.
C15_FallbackBuild ==
    (/\ nnlib = "sklearn"
     /\ op = "build_sequential_nn_idx"
     /\ WellShaped /\ k < N) =>
        outcome \in {"ok", "UnsupportedOperationError"}

----------------------------------------------------------------------------
(* Backend selection, argument checks. *)

\* C16: the backend is sklearn when faiss was asked for and cannot be
\* imported, and when another library was asked for; construction
\* returns in both cases; and no later step changes the backend.
C16_Backend ==
    /\ []((preferred_nnlib = "faiss" /\ ~faissInstalled) => nnlib = "sklearn")
    /\ [](preferred_nnlib # "faiss" => nnlib = "sklearn")
    /\ [][nnlib' = nnlib]_vars

\* C16 witness: faiss asked for and not installed; the object is on
\* sklearn after a set_nn_idx and a device change.
C16_Witness ==
    /\ preferred_nnlib = "faiss" /\ ~faissInstalled
    /\ nnlib = "sklearn"
    /\ op = "to" /\ outcome = "ok"
    /\ train_n # None

\* C17: a build_sequential_nn_idx of a well-shaped tensor with N <= k
\* ends with RangeError on either backend, and it does so at once: no
\* local structure exists, no row was allocated and no field of the
\* object has changed.
C17_BuildRange ==
    [][(op' = "build_sequential_nn_idx" /\ WellShaped' /\ N' <= k') =>
          /\ outcome' = "RangeError"
          /\ pc' = "idle" /\ bindex' = <<>> /\ nn_idx' = <<>>
          /\ obj' = obj]_vars

\* C17 witness: N = k on the sklearn backend.
C17_Witness ==
    /\ op = "build_sequential_nn_idx" /\ outcome = "RangeError"
    /\ WellShaped /\ N = k
    /\ nnlib = "sklearn"
    /\ pc = "idle" /\ bindex = <<>>

\* a rank-1 shape (n) read as (n, 1)
Promoted(shape) == IF Len(shape) = 1 THEN Append(shape, 1) ELSE shape

\* the shapes C18 says are accepted
Acceptable(shape) ==
    LET p == Promoted(shape)
    IN /\ Len(p) = Len(batch_shape) + 2
       /\ SubSeq(p, 1, Len(p) - 2) = batch_shape
       /\ p[Len(p)] = dim

\* the last call got as far as its shape check: set_nn_idx and
\* build_sequential_nn_idx start with it, find_nn_idx comes to it when
\* the assertions of lines 86-92 pass
ShapeChecked ==
    \/ op \in {"set_nn_idx", "build_sequential_nn_idx"}
    \/ /\ op = "find_nn_idx"
       /\ train_n # None
       /\ KUsed > 0 /\ KUsed <= train_n[1]

\* C18 (as claimed): at set_nn_idx, find_nn_idx and
\* build_sequential_nn_idx a tensor is accepted if and only if, a rank-1
\* tensor of length n being read as (n, 1), its leading dimensions equal
\* batch_shape and its last dimension equals dim; every other tensor is
\* rejected with ShapeError.
C18_ShapeAcceptance ==
    ShapeChecked =>
        IF Acceptable(x.shape)
        THEN WellShaped /\ outcome # "ShapeError"
        ELSE outcome = "ShapeError"

----------------------------------------------------------------------------
(* The order of the steps of build_sequential_nn_idx, checked under *)
(* BuildSpec, and its frame, checked under Spec.                    *)

\* points 0..n-1 of slot s (1-based) of the build argument, in order
SlotPrefix(s, n) == [p \in 1..n |-> BuildPoint(s, p - 1)]

\* C19: the order of the build steps on the faiss backend. Seeding
\* leaves exactly points 0..k-1 of the current slot in the working
\* structure, whatever the slot before left there; then point i is
\* searched for while the structure holds exactly points 0..i-1 of the
\* current slot and its row is still unwritten, it is added right after
\* its search, and the search for point i+1 comes right after that; i runs
\* from k to N-1 in steps of one, and when a slot is finished the structure
\* holds exactly its points 0..N-1.
C19_StepOrder ==
    /\ []((Building /\ pc = "search") =>
            /\ k <= i /\ i < N
            /\ bindex = SlotPrefix(bi + 1, i)
            /\ nn_idx[bi + 1][i - k + 1] = <<>>)
    /\ []((Building /\ pc = "add") =>
            /\ bindex = SlotPrefix(bi + 1, i)
            /\ Len(nn_idx[bi + 1][i - k + 1]) = k)
    /\ []((Building /\ pc \in {"seed", "return"} /\ bi >= 1) =>
            bindex = SlotPrefix(bi, N))
    /\ [][/\ pc = "seed" =>
               /\ pc' = "search" /\ i' = k /\ bi' = bi
               /\ bindex' = SlotPrefix(bi + 1, k)
          /\ pc = "search" =>
               /\ pc' = "add" /\ i' = i /\ bi' = bi
               /\ bindex' = bindex
          /\ pc = "add" =>
               /\ bindex' = SlotPrefix(bi + 1, i + 1)
               /\ IF i + 1 < N
                  THEN pc' = "search" /\ i' = i + 1 /\ bi' = bi
                  ELSE pc' \in {"seed", "return"} /\ bi' = bi + 1]_vars

\* C19 witness: the last point of the second slot is about to be searched
\* for, at least two points after the seed.
C19_Witness ==
    /\ Building /\ pc = "search"
    /\ bi = 1 /\ i = N - 1 /\ i >= k + 1
    /\ bindex = SlotPrefix(2, N - 1)

\* C20: no step of build_sequential_nn_idx, from the call to the return
\* or the error, changes a field of the object: train_n and every
\* structure of self.index stay as they were. A find_nn_idx that follows
\* a build_sequential_nn_idx therefore answers from the structures as they
\* were before it, and fails with StateError when train_n is still None.
C20_BuildFrame ==
    /\ [][op' = "build_sequential_nn_idx" => obj' = obj]_vars
    /\ [][(op = "build_sequential_nn_idx" /\ op' = "find_nn_idx") =>
            /\ train_n = None => outcome' = "StateError"
            /\ outcome' = "ok" =>
                  \A s \in 1..numel : \A r \in 1..T' :
                     nn_idx'[s][r] = search(index[s], TestPoint(s, r - 1)', KUsed')
          ]_vars

\* C20 witness: a build_sequential_nn_idx has returned on an object whose
\* structures hold the points of an earlier set_nn_idx.
C20_Witness ==
    /\ op = "build_sequential_nn_idx" /\ outcome = "ok"
    /\ filled = "yes"
    /\ \A s \in 1..numel : index[s] = TrainSlice(s)
    /\ train_n = Some(TrainN)

====
